---- MODULE Spec2Model ----
(***************************************************************************)
(* A model of extract_flashcards.py: the card generator (_cards), the cell *)
(* geometry (_get_rect), the three export strategies and main's exit       *)
(* handling.  One run of the command is one behaviour: Init fixes the      *)
(* command's inputs (does the source exist, how many pages, page size,     *)
(* export mode), every action is one statement (or one straight-line       *)
(* group of statements) of the code, and every call to the rendering       *)
(* engine or to the filesystem may fail.                                   *)
(***************************************************************************)
EXTENDS Integers, Sequences, FiniteSets

\* ---------------------------------------------------------------- bounds
MaxPages == 5
MaxWidth == 3
MaxHeight == 3

\* ------------------------------------------------------ program constants
\* range(4) and range(2) of _cards
Rows == 4
Cols == 2
\* the minimum field width of the format specification {num:03d}
PadWidth == 3

Modes == {"pdf", "pdf-merged", "anki"}

\* What a call of the rendering engine can raise (fitz errors are
\* RuntimeError / ValueError / IndexError), and what a filesystem call can
\* raise: an OSError, which is the builtin FileNotFoundError when errno is
\* ENOENT and some other exception otherwise.
RenderErrors == {"Exception"}
FsErrors == {"FileNotFoundError", "Exception"}
\* mkdir(parents=True, exist_ok=True) creates what is missing: what it raises
\* (FileExistsError, NotADirectoryError, PermissionError) is not ENOENT.
MkdirErrors == {"Exception"}

\* ------------------------------------------------------------- rationals
\* Python's true division W / 2 is modelled by exact fractions <<n, d>>, d > 0.
RECURSIVE GCD(_, _)
GCD(a, b) == IF b = 0 THEN a ELSE GCD(b, a % b)

Abs(a) == IF a < 0 THEN -a ELSE a

Norm(q) ==
  LET g == GCD(Abs(q[1]), q[2])
  IN  IF g = 0 THEN q ELSE <<q[1] \div g, q[2] \div g>>

RDiv(a, b) == Norm(<<a, b>>)
RScale(k, q) == Norm(<<k * q[1], q[2]>>)
RAdd(p, q) == Norm(<<p[1] * q[2] + q[1] * p[2], p[2] * q[2]>>)
RSub(p, q) == Norm(<<p[1] * q[2] - q[1] * p[2], p[2] * q[2]>>)
RMul(p, q) == Norm(<<p[1] * q[1], p[2] * q[2]>>)
RLe(p, q) == p[1] * q[2] <= q[1] * p[2]
RInt(k) == <<k, 1>>

\* -------------------------------------------------------------- geometry
\* fitz.Rect(x0, y0, x1, y1)
Rect(x0, y0, x1, y1) == [x0 |-> x0, y0 |-> y0, x1 |-> x1, y1 |-> y1]

\* The same with floor division (W // 2, H // 4).
GetRectFloorDiv(page, col, row) ==
  LET w == RInt(page.width \div 2)
      h == RInt(page.height \div 4)
  IN  Rect(RScale(col, w), RScale(row, h), RScale(col + 1, w), RScale(row + 1, h))

\* FlashCardExtractor._get_rect
_get_rect(page, col, row) ==
  LET w == RDiv(page.width, 2)
      h == RDiv(page.height, 4)
  IN  Rect(RScale(col, w), RScale(row, h), RScale(col + 1, w), RScale(row + 1, h))

\* ------------------------------------------------------------ file names
RECURSIVE Digits(_)
\* the decimal digits of n >= 0, most significant first
Digits(n) == IF n < 10 THEN <<n>> ELSE Append(Digits(n \div 10), n % 10)

RECURSIVE ZeroPad(_, _)
ZeroPad(ds, width) == IF Len(ds) >= width THEN ds ELSE ZeroPad(<<0>> \o ds, width)

\* f"{num:03d}"
Fmt03d(num) == ZeroPad(Digits(num), PadWidth)

\* A file name is <<prefix, digits, suffix>>.
FrontName(num) == <<"", Fmt03d(num), "-Front.pdf">>

\* The Back file written under the Front file's name.
BackNameAsFront(num) == <<"", Fmt03d(num), "-Front.pdf">>

BackName(num) == <<"", Fmt03d(num), "-Back.pdf">>
MergedName(num) == <<"", Fmt03d(num), "-Merged.pdf">>
QFile(num) == <<"card_", Fmt03d(num), "_q.png">>

\* The answer image staged under the question image's name.
AFileAsQ(num) == <<"card_", Fmt03d(num), "_q.png">>

AFile(num) == <<"card_", Fmt03d(num), "_a.png">>

\* ------------------------------------------------------- card generator
\* The generator object of _cards: st is "fresh" before the first next(),
\* "suspended" at the yield, "done" once exhausted.
GenFresh == [st |-> "fresh", card_num |-> 0, pair |-> 0, row |-> 0, col |-> 0]

\* range(len(self.pdf_doc) // 2), rounding up instead of down.
NPairsCeil(n) == (n + 1) \div 2

\* range(len(self.pdf_doc) // 2)
NPairs(n) == n \div 2

\* the tuple of the yield statement
CardOf(g) ==
  [num |-> g.card_num, q_page |-> g.pair * 2, a_page |-> g.pair * 2 + 1,
   col |-> g.col, row |-> g.row]

\* Where the loops stand once the generator is entered: the first
\* (pair, row, col), or exhausted when there is no pair.
Enter(g, n) ==
  IF 0 < NPairs(n)
    THEN [st |-> "suspended", card_num |-> 1, pair |-> 0, row |-> 0, col |-> 0]
    ELSE [g EXCEPT !.st = "done", !.card_num = 1]

\* The loops with the column loop outside the row loop.
ResumeColumnMajor(g, n) ==
  LET num == g.card_num + 1
  IN  IF g.row + 1 < Rows
        THEN [g EXCEPT !.card_num = num, !.row = g.row + 1]
        ELSE IF g.col + 1 < Cols
          THEN [g EXCEPT !.card_num = num, !.col = g.col + 1, !.row = 0]
          ELSE IF g.pair + 1 < NPairs(n)
            THEN [g EXCEPT !.card_num = num, !.pair = g.pair + 1, !.row = 0, !.col = 0]
            ELSE [g EXCEPT !.card_num = num, !.st = "done"]

\* The loops with card_num incremented once per row instead of once per card.
ResumePerRow(g, n) ==
  IF g.col + 1 < Cols
    THEN [g EXCEPT !.col = g.col + 1]
    ELSE IF g.row + 1 < Rows
      THEN [g EXCEPT !.card_num = g.card_num + 1, !.row = g.row + 1, !.col = 0]
      ELSE IF g.pair + 1 < NPairs(n)
        THEN [g EXCEPT !.card_num = g.card_num + 1, !.pair = g.pair + 1,
                       !.row = 0, !.col = 0]
        ELSE [g EXCEPT !.card_num = g.card_num + 1, !.st = "done"]

\* Resuming after the yield: card_num += 1, then the next iteration of the
\* col loop, of the row loop, of the pair loop, or the end of the generator.
Resume(g, n) ==
  LET num == g.card_num + 1
  IN  IF g.col + 1 < Cols
        THEN [g EXCEPT !.card_num = num, !.col = g.col + 1]
        ELSE IF g.row + 1 < Rows
          THEN [g EXCEPT !.card_num = num, !.row = g.row + 1, !.col = 0]
          ELSE IF g.pair + 1 < NPairs(n)
            THEN [g EXCEPT !.card_num = num, !.pair = g.pair + 1, !.row = 0, !.col = 0]
            ELSE [g EXCEPT !.card_num = num, !.st = "done"]

\* next() on the generator over a document of n pages
_cards(g, n) ==
  IF g.st = "fresh" THEN Enter(g, n)
  ELSE IF g.st = "suspended" THEN Resume(g, n)
  ELSE g

\* ------------------------------------------------------------------ state
VARIABLES
  pdfExists,  \* the command line: does args.pdf_file exist
  nPages,     \* len(self.pdf_doc)
  pageW,      \* page.rect.width
  pageH,      \* page.rect.height
  export,     \* args.export
  pc,         \* the statement the run is at
  exc,        \* the exception in flight ("none" when there is none)
  failedAt,   \* the number of the card whose processing raised (0: none)
  opened,     \* self.pdf_doc is open
  warned,     \* the odd-page-count warning was printed
  gen,        \* the generator object of self._cards()
  card,       \* the loop variables num, q_page, a_page, col, row
  yielded,    \* every tuple the generator has yielded, in order
  ops,        \* every render and every filesystem write requested, in order
  outDir,     \* the output directory (out, or out.parent) has been created
  outFiles,   \* the files of the output directory
  mergedDoc,  \* the pages of the document `merged`
  tempDir,    \* temp_dir: "none", "exists" or "removed"
  tempFiles,  \* the files of temp_dir
  media,      \* the list media
  deck,       \* the notes of deck
  pkgWrites,  \* how many times pkg.write_to_file was called
  pkgFile,    \* the file at the output path of the package export
  stdout,     \* the card numbers of the progress lines printed
  confirmed,  \* the final confirmation line was printed
  traceback,  \* traceback.print_exc() ran
  message,    \* sys.exit printed "Error: ..."
  exitCode    \* the process's exit status (-1 while it runs)

inputs == <<pdfExists, nPages, pageW, pageH, export>>
console == <<stdout, confirmed, traceback, message, exitCode>>
iter == <<gen, card, yielded>>
anki == <<tempDir, tempFiles, media, deck, pkgWrites, pkgFile>>
vars == <<inputs, pc, exc, failedAt, opened, warned, iter, ops, outDir, outFiles,
          mergedDoc, anki, console>>

NoCard == [num |-> 0, q_page |-> 0, a_page |-> 0, col |-> 0, row |-> 0]
NoRect == Rect(RInt(0), RInt(0), RInt(0), RInt(0))
NoFile == [whole |-> FALSE, notes |-> <<>>, media |-> <<>>, present |-> FALSE]

\* self.pdf_doc[page_num]
Page == [width |-> pageW, height |-> pageH]

Init ==
  /\ pdfExists \in BOOLEAN
  /\ nPages \in 0..MaxPages
  /\ pageW \in 1..MaxWidth
  /\ pageH \in 1..MaxHeight
  /\ export \in Modes
  \* a source that does not exist has no pages to speak of
  /\ ~pdfExists => nPages = 0 /\ pageW = 1 /\ pageH = 1
  /\ pc = "main"
  /\ exc = "none"
  /\ failedAt = 0
  /\ opened = FALSE
  /\ warned = FALSE
  /\ gen = GenFresh
  /\ card = NoCard
  /\ yielded = <<>>
  /\ ops = <<>>
  /\ outDir = FALSE
  /\ outFiles = {}
  /\ mergedDoc = <<>>
  /\ tempDir = "none"
  /\ tempFiles = {}
  /\ media = <<>>
  /\ deck = <<>>
  /\ pkgWrites = 0
  /\ pkgFile = NoFile
  /\ stdout = <<>>
  /\ confirmed = FALSE
  /\ traceback = FALSE
  /\ message = FALSE
  /\ exitCode = -1

\* ------------------------------------------------------- error propagation
\* An exception skipped over: the loop goes on with the next card.
OnErrorSkipCard(mode, inTry) ==
  IF mode = "anki" THEN (IF inTry THEN "anki_loop" ELSE "ctx_exit")
  ELSE IF mode = "pdf" THEN "sep_loop" ELSE "mrg_loop"

\* The scratch directory removed on the success path only.
OnErrorNoFinally(mode, inTry) == "ctx_exit"

\* Where an exception raised inside an export strategy goes.  No strategy
\* catches anything: out of export_pdf_separate and export_pdf_merged it
\* leaves through the with statement of main; inside the try of export_anki
\* it runs the finally clause first.
OnError(mode, inTry) ==
  IF mode = "anki" /\ inTry THEN "anki_finally" ELSE "ctx_exit"

\* raise e while card n is processed (n = 0: outside the loop)
Raise(e, n, inTry) ==
  /\ exc' = e
  /\ failedAt' = n
  /\ pc' = OnError(export, inTry)

Goto(next) ==
  /\ pc' = next
  /\ UNCHANGED <<exc, failedAt>>

\* ------------------------------------------------------------- operations
\* What the rendering engine can answer for a page: pdf_doc[page_num] raises
\* IndexError for a page the document does not have.
RenderOutcomes(page_num) ==
  IF page_num \in 0..(nPages - 1) THEN {"ok"} \cup RenderErrors ELSE RenderErrors

\* The request _extract_pdf / _extract_image makes for cell <<page, col, row>>.
RenderOp(n, side, cell, ok) ==
  [kind |-> "render", card |-> n, side |-> side, page |-> cell[1], col |-> cell[2],
   row |-> cell[3],
   rect |-> IF cell[1] \in 0..(nPages - 1) THEN _get_rect(Page, cell[2], cell[3])
            ELSE NoRect,
   name |-> <<>>, ok |-> ok]

\* A write of a file (write_bytes, save, write_to_file).
WriteOp(n, side, cell, name, ok) ==
  [kind |-> "write", card |-> n, side |-> side, page |-> cell[1], col |-> cell[2],
   row |-> cell[3], rect |-> NoRect, name |-> name, ok |-> ok]

\* open(name, "wb") and a complete (whole) or interrupted write
WriteFile(files, name, content, whole) ==
  {f \in files : f.name # name} \cup {[name |-> name, content |-> content, whole |-> whole]}

Names(files) == {f.name : f \in files}

\* The cells the three strategies read a card's two sides from.
QuestionCell(c) == <<c.q_page, c.col, c.row>>

\* The answer read from the same column as the question.
BackCellSameColumn(c) == <<c.a_page, c.col, c.row>>

SepBackCell(c) == <<c.a_page, 1 - c.col, c.row>>
MrgBackCell(c) == <<c.a_page, 1 - c.col, c.row>>
AnkiAnswerCell(c) == <<c.a_page, 1 - c.col, c.row>>

\* path.write_bytes(self._extract_...(cell)): the render, then the write of
\* `name` into `files` (whose next value is filesNext).  A write that fails
\* has either not created the file or left it incomplete.
RenderThenWrite(side, cell, name, files, filesNext, nextPc, inTry) ==
  \E r \in RenderOutcomes(cell[1]) :
    IF r # "ok"
      THEN /\ ops' = Append(ops, RenderOp(card.num, side, cell, FALSE))
           /\ filesNext = files
           /\ Raise(r, card.num, inTry)
      ELSE \E w \in {"ok"} \cup FsErrors :
             IF w = "ok"
               THEN /\ ops' = ops \o <<RenderOp(card.num, side, cell, TRUE),
                                      WriteOp(card.num, side, cell, name, TRUE)>>
                    /\ filesNext = WriteFile(files, name, <<cell>>, TRUE)
                    /\ Goto(nextPc)
               ELSE /\ ops' = ops \o <<RenderOp(card.num, side, cell, TRUE),
                                      WriteOp(card.num, side, cell, name, FALSE)>>
                    /\ \E created \in BOOLEAN :
                         filesNext = IF created
                                       THEN WriteFile(files, name, <<cell>>, FALSE)
                                       ELSE files
                    /\ Raise(w, card.num, inTry)

\* for num, q_page, a_page, col, row in self._cards():
ForCards(loopPc, bodyPc, endPc) ==
  /\ pc = loopPc
  /\ LET g == _cards(gen, nPages)
     IN  /\ gen' = g
         /\ IF g.st = "done"
              THEN /\ pc' = endPc
                   /\ UNCHANGED <<card, yielded>>
              ELSE /\ pc' = bodyPc
                   /\ card' = CardOf(g)
                   /\ yielded' = Append(yielded, CardOf(g))

\* out.mkdir(parents=True, exist_ok=True)
Mkdir(nextPc) ==
  \E r \in {"ok"} \cup MkdirErrors :
    IF r = "ok"
      THEN outDir' = TRUE /\ Goto(nextPc)
      ELSE outDir' = outDir /\ Raise(r, 0, FALSE)

\* ---------------------------------------------------------------- actions
\* with FlashCardExtractor(args.pdf_file) as ex: the constructor.  A raise
\* in __init__ leaves the with statement before __enter__, so __exit__ does
\* not run.
Construct ==
  /\ pc = "main"
  /\ IF ~pdfExists
       THEN /\ exc' = "FileNotFoundError"
            /\ pc' = "handler"
            /\ UNCHANGED <<opened, warned>>
       ELSE \E r \in {"ok"} \cup RenderErrors :
              IF r = "ok"
                THEN /\ opened' = TRUE
                     /\ warned' = (nPages % 2 # 0)
                     /\ pc' = "dispatch"
                     /\ exc' = exc
                ELSE /\ exc' = r
                     /\ pc' = "handler"
                     /\ UNCHANGED <<opened, warned>>
  /\ UNCHANGED <<inputs, failedAt, iter, ops, outDir, outFiles, mergedDoc, anki, console>>

\* if args.export == "pdf": ... elif ... else ...
Dispatch ==
  /\ pc = "dispatch"
  /\ pc' = IF export = "pdf" THEN "sep_mkdir"
           ELSE IF export = "pdf-merged" THEN "mrg_mkdir" ELSE "anki_mkdir"
  /\ UNCHANGED <<inputs, exc, failedAt, opened, warned, iter, ops, outDir, outFiles,
                 mergedDoc, anki, console>>

\* ---- export_pdf_separate
SepMkdir ==
  /\ pc = "sep_mkdir"
  /\ Mkdir("sep_loop")
  /\ UNCHANGED <<inputs, opened, warned, iter, ops, outFiles, mergedDoc, anki, console>>

SepLoop ==
  /\ ForCards("sep_loop", "sep_front", "sep_confirm")
  /\ UNCHANGED <<inputs, exc, failedAt, opened, warned, ops, outDir, outFiles,
                 mergedDoc, anki, console>>

\* (out / f"{num:03d}-Front.pdf").write_bytes(self._extract_pdf(q_page, col, row))
SepFront ==
  /\ pc = "sep_front"
  /\ RenderThenWrite("Q", QuestionCell(card), FrontName(card.num), outFiles, outFiles',
                     "sep_back", FALSE)
  /\ UNCHANGED <<inputs, opened, warned, iter, outDir, mergedDoc, anki, console>>

\* (out / f"{num:03d}-Back.pdf").write_bytes(...); print(f"  Card {num:03d}")
SepBack ==
  /\ pc = "sep_back"
  /\ RenderThenWrite("A", SepBackCell(card), BackName(card.num), outFiles, outFiles',
                     "sep_loop", FALSE)
  /\ stdout' = IF pc' = "sep_loop" /\ exc' = "none"
                 THEN Append(stdout, card.num) ELSE stdout
  /\ UNCHANGED <<inputs, opened, warned, iter, outDir, mergedDoc, anki, confirmed,
                 traceback, message, exitCode>>

\* print(f"✓ Exported to {out}"), and the return
Confirm(atPc) ==
  /\ pc = atPc
  /\ confirmed' = TRUE
  /\ pc' = "ctx_exit"
  /\ UNCHANGED <<inputs, exc, failedAt, opened, warned, iter, ops, outDir, outFiles,
                 mergedDoc, anki, stdout, traceback, message, exitCode>>

SepConfirm == Confirm("sep_confirm")

\* ---- export_pdf_merged
MrgMkdir ==
  /\ pc = "mrg_mkdir"
  /\ Mkdir("mrg_loop")
  /\ UNCHANGED <<inputs, opened, warned, iter, ops, outFiles, mergedDoc, anki, console>>

MrgLoop ==
  /\ ForCards("mrg_loop", "mrg_front", "mrg_confirm")
  /\ UNCHANGED <<inputs, exc, failedAt, opened, warned, ops, outDir, outFiles,
                 mergedDoc, anki, console>>

\* The render of one side and merged.insert_pdf of it; `doc` is the merged
\* document it is appended to.
RenderThenInsert(side, cell, doc, nextPc) ==
  \E r \in RenderOutcomes(cell[1]) :
    /\ ops' = Append(ops, RenderOp(card.num, side, cell, r = "ok"))
    /\ IF r = "ok"
         THEN mergedDoc' = Append(doc, cell) /\ Goto(nextPc)
         ELSE mergedDoc' = doc /\ Raise(r, card.num, FALSE)

\* merged = fitz.open(); front = ...; merged.insert_pdf(front); front.close()
MrgFront ==
  /\ pc = "mrg_front"
  /\ RenderThenInsert("Q", QuestionCell(card), <<>>, "mrg_back")
  /\ UNCHANGED <<inputs, opened, warned, iter, outDir, outFiles, anki, console>>

\* back = ...; merged.insert_pdf(back); back.close()
MrgBack ==
  /\ pc = "mrg_back"
  /\ RenderThenInsert("A", MrgBackCell(card), mergedDoc, "mrg_save")
  /\ UNCHANGED <<inputs, opened, warned, iter, outDir, outFiles, anki, console>>

\* merged.save(...); merged.close(); print(f"  Card {num:03d}")
MrgSave ==
  /\ pc = "mrg_save"
  /\ LET name == MergedName(card.num)
         cell == QuestionCell(card)
     IN  \E w \in {"ok"} \cup FsErrors :
           /\ ops' = Append(ops, WriteOp(card.num, "QA", cell, name, w = "ok"))
           /\ IF w = "ok"
                THEN /\ outFiles' = WriteFile(outFiles, name, mergedDoc, TRUE)
                     /\ stdout' = Append(stdout, card.num)
                     /\ Goto("mrg_loop")
                ELSE /\ \E created \in BOOLEAN :
                          outFiles' = IF created
                                        THEN WriteFile(outFiles, name, mergedDoc, FALSE)
                                        ELSE outFiles
                     /\ stdout' = stdout
                     /\ Raise(w, card.num, FALSE)
  /\ UNCHANGED <<inputs, opened, warned, iter, outDir, mergedDoc, anki, confirmed,
                 traceback, message, exitCode>>

MrgConfirm == Confirm("mrg_confirm")

\* ---- export_anki
\* out.parent.mkdir(...); deck = genanki.Deck(...); model = genanki.Model(...)
AnkiMkdir ==
  /\ pc = "anki_mkdir"
  /\ Mkdir("anki_mkdtemp")
  /\ UNCHANGED <<inputs, opened, warned, iter, ops, outFiles, mergedDoc, anki, console>>

\* temp_dir = tempfile.mkdtemp(); media = []; try:
AnkiMkdtemp ==
  /\ pc = "anki_mkdtemp"
  /\ \E r \in {"ok"} \cup FsErrors :
       IF r = "ok"
         THEN tempDir' = "exists" /\ Goto("anki_loop")
         ELSE tempDir' = tempDir /\ Raise(r, 0, FALSE)
  /\ UNCHANGED <<inputs, opened, warned, iter, ops, outDir, outFiles, mergedDoc,
                 tempFiles, media, deck, pkgWrites, pkgFile, console>>

AnkiLoop ==
  /\ ForCards("anki_loop", "anki_q", "anki_pkg")
  /\ UNCHANGED <<inputs, exc, failedAt, opened, warned, ops, outDir, outFiles,
                 mergedDoc, anki, console>>

\* q_file = ...; a_file = ...; q_path = ...; q_path.write_bytes(...);
\* media.append(str(q_path))
AnkiQ ==
  /\ pc = "anki_q"
  /\ RenderThenWrite("Q", QuestionCell(card), QFile(card.num), tempFiles, tempFiles',
                     "anki_a", TRUE)
  /\ media' = IF pc' = "anki_a" /\ exc' = "none"
                THEN Append(media, QFile(card.num)) ELSE media
  /\ UNCHANGED <<inputs, opened, warned, iter, outDir, outFiles, mergedDoc, tempDir,
                 deck, pkgWrites, pkgFile, console>>

\* a_path = ...; a_path.write_bytes(...); media.append(str(a_path))
AnkiA ==
  /\ pc = "anki_a"
  /\ RenderThenWrite("A", AnkiAnswerCell(card), AFile(card.num), tempFiles, tempFiles',
                     "anki_note", TRUE)
  /\ media' = IF pc' = "anki_note" /\ exc' = "none"
                THEN Append(media, AFile(card.num)) ELSE media
  /\ UNCHANGED <<inputs, opened, warned, iter, outDir, outFiles, mergedDoc, tempDir,
                 deck, pkgWrites, pkgFile, console>>

\* deck.add_note(genanki.Note(...)); print(f"  Card {num:03d}")
AnkiNote ==
  /\ pc = "anki_note"
  /\ \E r \in {"ok"} \cup RenderErrors :
       IF r = "ok"
         THEN /\ deck' = Append(deck, [q |-> QFile(card.num), a |-> AFile(card.num)])
              /\ stdout' = Append(stdout, card.num)
              /\ Goto("anki_loop")
         ELSE /\ UNCHANGED <<deck, stdout>>
              /\ Raise(r, card.num, TRUE)
  /\ UNCHANGED <<inputs, opened, warned, iter, ops, outDir, outFiles, mergedDoc,
                 tempDir, tempFiles, media, pkgWrites, pkgFile, confirmed, traceback,
                 message, exitCode>>

\* What write_to_file can answer: it reads every media file, and raises
\* FileNotFoundError for one that is not there.
PackageOutcomes ==
  IF \A i \in 1..Len(media) : media[i] \in Names(tempFiles)
    THEN {"ok"} \cup FsErrors
    ELSE {"FileNotFoundError"}

\* pkg = genanki.Package(deck); pkg.media_files = media; pkg.write_to_file(str(out))
AnkiPackage ==
  /\ pc = "anki_pkg"
  /\ pkgWrites' = pkgWrites + 1
  /\ \E w \in PackageOutcomes :
       /\ ops' = Append(ops, WriteOp(0, "package", <<0, 0, 0>>, <<"out">>, w = "ok"))
       /\ IF w = "ok"
            THEN /\ pkgFile' = [whole |-> TRUE, notes |-> deck, media |-> media,
                                present |-> TRUE]
                 /\ Goto("anki_finally")
            ELSE /\ \E created \in BOOLEAN :
                      pkgFile' = IF created
                                   THEN [whole |-> FALSE, notes |-> deck, media |-> media,
                                         present |-> TRUE]
                                   ELSE pkgFile
                 /\ Raise(w, 0, TRUE)
  /\ UNCHANGED <<inputs, opened, warned, iter, outDir, outFiles, mergedDoc, tempDir,
                 tempFiles, media, deck, console>>

\* finally: shutil.rmtree(temp_dir, ignore_errors=True); then the exception
\* in flight, if any, goes on
AnkiFinally ==
  /\ pc = "anki_finally"
  /\ tempDir' = "removed"
  /\ tempFiles' = {}
  /\ pc' = IF exc = "none" THEN "anki_confirm" ELSE "ctx_exit"
  /\ UNCHANGED <<inputs, exc, failedAt, opened, warned, iter, ops, outDir, outFiles,
                 mergedDoc, media, deck, pkgWrites, pkgFile, console>>

AnkiConfirm == Confirm("anki_confirm")

\* ---- main
\* __exit__: self.close(); it returns None, so an exception in flight goes
\* on to main's handlers, and without one main returns (exit status 0)
CtxExit ==
  /\ pc = "ctx_exit"
  /\ opened' = FALSE
  /\ IF exc = "none"
       THEN pc' = "exited" /\ exitCode' = 0
       ELSE pc' = "handler" /\ exitCode' = exitCode
  /\ UNCHANGED <<inputs, exc, failedAt, warned, iter, ops, outDir, outFiles, mergedDoc,
                 anki, stdout, confirmed, traceback, message>>

\* except FileNotFoundError as e: sys.exit(f"Error: {e}")
HandleFileNotFound ==
  /\ pc = "handler"
  /\ exc = "FileNotFoundError"
  /\ message' = TRUE
  /\ exitCode' = 1
  /\ pc' = "exited"
  /\ UNCHANGED <<inputs, exc, failedAt, opened, warned, iter, ops, outDir, outFiles,
                 mergedDoc, anki, stdout, confirmed, traceback>>

\* except Exception as e: traceback.print_exc(); sys.exit(f"Error: {e}")
HandleException ==
  /\ pc = "handler"
  /\ exc # "FileNotFoundError"
  /\ traceback' = TRUE
  /\ message' = TRUE
  /\ exitCode' = 1
  /\ pc' = "exited"
  /\ UNCHANGED <<inputs, exc, failedAt, opened, warned, iter, ops, outDir, outFiles,
                 mergedDoc, anki, stdout, confirmed>>

Next ==
  \/ Construct
  \/ Dispatch
  \/ SepMkdir
  \/ SepLoop
  \/ SepFront
  \/ SepBack
  \/ SepConfirm
  \/ MrgMkdir
  \/ MrgLoop
  \/ MrgFront
  \/ MrgBack
  \/ MrgSave
  \/ MrgConfirm
  \/ AnkiMkdir
  \/ AnkiMkdtemp
  \/ AnkiLoop
  \/ AnkiQ
  \/ AnkiA
  \/ AnkiNote
  \/ AnkiPackage
  \/ AnkiFinally
  \/ AnkiConfirm
  \/ CtxExit
  \/ HandleFileNotFound
  \/ HandleException

Spec == Init /\ [][Next]_vars

\* ----------------------------------------------------------------- claims
CardsPerPair == Rows * Cols

Exhausted == gen.st = "done"
RenderIdx == {i \in 1..Len(ops) : ops[i].kind = "render"}
WriteIdx == {i \in 1..Len(ops) : ops[i].kind = "write"}

\* C1: for an even page count P the generator yields exactly (P/2)*8 cards,
\* and the i-th card yielded has card_number i (from 1, no gap, no repeat,
\* across page pairs).
C1_EvenCountContiguous ==
  nPages % 2 = 0 =>
    /\ \A i \in 1..Len(yielded) : yielded[i].num = i
    /\ Len(yielded) <= (nPages \div 2) * 8
    /\ Exhausted => Len(yielded) = (nPages \div 2) * 8

C1_Witness ==
  /\ nPages = 4
  /\ Exhausted
  /\ Len(yielded) = 16
  /\ yielded[9].num = 9 /\ yielded[9].q_page = 2

\* C2: for an odd page count P the generator yields exactly floor(P/2)*8
\* cards, every card has question_page = 2k and answer_page = 2k+1 < P for
\* some k, neither is the last page P-1, and no strategy requests a render
\* of the last page.
C2_OddCountLastPageUnused ==
  nPages % 2 = 1 =>
    /\ Len(yielded) <= (nPages \div 2) * 8
    /\ Exhausted => Len(yielded) = (nPages \div 2) * 8
    /\ \A i \in 1..Len(yielded) :
         /\ yielded[i].q_page # nPages - 1
         /\ yielded[i].a_page # nPages - 1
         /\ \E k \in 0..nPages :
              /\ yielded[i].q_page = 2 * k
              /\ yielded[i].a_page = 2 * k + 1
              /\ 2 * k + 1 < nPages - 1 + 1
    /\ \A i \in RenderIdx : ops[i].page # nPages - 1

C2_Witness ==
  /\ nPages = 5
  /\ warned
  /\ Exhausted
  /\ Len(yielded) = 16
  /\ \E i \in RenderIdx : ops[i].page = 3 /\ ops[i].ok

\* C3: in each of the three export strategies, the answer side of a card is
\* rendered from (answer_page, 1 - column, row) where the question side was
\* rendered from (question_page, column, row), answer_page = question_page + 1.
C3_Mirroring ==
  /\ \A i \in RenderIdx :
       ops[i].side = "Q" =>
         /\ ops[i].card \in 1..Len(yielded)
         /\ ops[i].page = yielded[ops[i].card].q_page
         /\ ops[i].col = yielded[ops[i].card].col
         /\ ops[i].row = yielded[ops[i].card].row
  /\ \A i \in RenderIdx :
       ops[i].side = "A" =>
         \E j \in RenderIdx :
           /\ j < i
           /\ ops[j].side = "Q"
           /\ ops[j].ok
           /\ ops[j].card = ops[i].card
           /\ ops[i].col = 1 - ops[j].col
           /\ ops[i].row = ops[j].row
           /\ ops[i].page = ops[j].page + 1

C3_Witness ==
  /\ export = "pdf-merged"
  /\ confirmed
  /\ \E f \in outFiles : f.whole /\ f.content = <<<<0, 1, 2>>, <<1, 0, 2>>>>
  /\ \E i \in RenderIdx : ops[i].side = "A" /\ ops[i].ok /\ ops[i].col = 0 /\ ops[i].row = 2

\* ---- geometry of the grid
PageSizes == [width : 1..MaxWidth, height : 1..MaxHeight]
CellSeq == [i \in 1..CardsPerPair |-> <<(i - 1) % Cols, (i - 1) \div Cols>>]

\* the 8 rectangles of every page size, by cell
CellRects == [p \in PageSizes |-> [i \in 1..CardsPerPair |->
                _get_rect(p, CellSeq[i][1], CellSeq[i][2])]]

Area(r) == RMul(RSub(r.x1, r.x0), RSub(r.y1, r.y0))

RECURSIVE AreaSum(_, _)
AreaSum(rs, n) == IF n = 0 THEN RInt(0) ELSE RAdd(AreaSum(rs, n - 1), Area(rs[n]))

InteriorsDisjoint(a, b) ==
  \/ RLe(a.x1, b.x0)
  \/ RLe(b.x1, a.x0)
  \/ RLe(a.y1, b.y0)
  \/ RLe(b.y1, a.y0)

InsidePage(r, p) ==
  /\ RLe(RInt(0), r.x0) /\ RLe(r.x1, RInt(p.width))
  /\ RLe(RInt(0), r.y0) /\ RLe(r.y1, RInt(p.height))

Proper(r) == ~RLe(r.x1, r.x0) /\ ~RLe(r.y1, r.y0)

\* The 8 rectangles of page size p are the cells of the claim, lie in the
\* page, have pairwise disjoint interiors, and their areas add up to the
\* page's: together, they partition it.
Partitions(p) ==
  LET rs == CellRects[p]
  IN  /\ \A i \in 1..CardsPerPair :
           LET c == CellSeq[i][1]
               r == CellSeq[i][2]
           IN  /\ rs[i] = Rect(RDiv(c * p.width, 2), RDiv(r * p.height, 4),
                               RDiv((c + 1) * p.width, 2), RDiv((r + 1) * p.height, 4))
               /\ Proper(rs[i])
               /\ InsidePage(rs[i], p)
      /\ \A i, j \in 1..CardsPerPair : i # j => InteriorsDisjoint(rs[i], rs[j])
      /\ AreaSum(rs, CardsPerPair) = RInt(p.width * p.height)

\* the page sizes whose 8 rectangles partition the page (an enumerated set)
PartitionedSizes == {q : q \in {p \in PageSizes : Partitions(p)}}

\* C4: for a page of positive width W and height H the 8 rectangles of
\* _get_rect, column 0..1 and row 0..3, are
\* [column*W/2, (column+1)*W/2] x [row*H/4, (row+1)*H/4]; any two have
\* disjoint interiors and their union is the page [0,W] x [0,H] (they lie in
\* the page, do not overlap, and their areas add up to W*H); every cell a
\* strategy renders is clipped to the rectangle of its column and row.
C4_CellsPartitionPage ==
  /\ Page \in PartitionedSizes
  /\ \A i \in RenderIdx :
       ops[i].ok => \E k \in 1..CardsPerPair :
                      /\ CellSeq[k] = <<ops[i].col, ops[i].row>>
                      /\ ops[i].rect = CellRects[Page][k]

\* every cell of page 0 of a 3 x 3 page has been rendered
C4_Witness ==
  /\ pageW = 3
  /\ pageH = 3
  /\ \A k \in 1..CardsPerPair :
       \E i \in RenderIdx :
         /\ ops[i].ok
         /\ ops[i].page = 0
         /\ ops[i].rect = CellRects[Page][k]
  /\ \E i \in RenderIdx : ops[i].rect = Rect(<<3, 2>>, <<9, 4>>, <<3, 1>>, <<3, 1>>)

\* C5: cards are yielded pair by pair, within a pair row by row, within a
\* row column by column: the card of pair k, row r, column c is number
\* 8*k + 2*r + c + 1; column and row stay in {0,1} and {0,1,2,3}; and every
\* (k, r, c) with k < floor(P/2) is yielded exactly once.
C5_FixedOrder ==
  /\ \A i \in 1..Len(yielded) :
       LET y == yielded[i]
           k == y.q_page \div 2
       IN  /\ y.q_page = 2 * k
           /\ y.a_page = 2 * k + 1
           /\ k \in 0..((nPages \div 2) - 1)
           /\ y.row \in 0..3
           /\ y.col \in 0..1
           /\ y.num = 8 * k + 2 * y.row + y.col + 1
           /\ i = y.num
  /\ Exhausted =>
       \A k \in 0..((nPages \div 2) - 1) : \A r \in 0..3 : \A c \in 0..1 :
         Cardinality({i \in 1..Len(yielded) :
                        /\ yielded[i].q_page = 2 * k
                        /\ yielded[i].row = r
                        /\ yielded[i].col = c}) = 1

C5_Witness ==
  /\ nPages = 4
  /\ Exhausted
  /\ yielded[2] = [num |-> 2, q_page |-> 0, a_page |-> 1, col |-> 1, row |-> 0]
  /\ yielded[3] = [num |-> 3, q_page |-> 0, a_page |-> 1, col |-> 0, row |-> 1]
  /\ yielded[16] = [num |-> 16, q_page |-> 2, a_page |-> 3, col |-> 1, row |-> 3]

\* ---- export_anki: the scratch directory
\* export_anki has returned or raised: control is past its finally clause
AnkiLeft == pc \in {"anki_confirm", "ctx_exit", "handler", "exited"}

\* C6: once export_anki has created the scratch directory, the directory is
\* gone whenever export_anki has returned or raised: after a successful
\* run, after a failure at any step of any card, and after a failure of the
\* serialization.
C6_ScratchRemoved ==
  (tempDir # "none" /\ AnkiLeft) => (tempDir = "removed" /\ tempFiles = {})

\* the answer image of card 3 could not be written; two cards were staged
C6_Witness ==
  /\ export = "anki"
  /\ pc = "ctx_exit"
  /\ exc # "none"
  /\ failedAt = 3
  /\ Len(media) = 5
  /\ ~ops[Len(ops)].ok /\ ops[Len(ops)].kind = "write"
  /\ tempDir = "removed"

\* ---- fail-fast
Unwinding == pc \in {"anki_finally", "ctx_exit", "handler", "exited"}

\* C7: in all three strategies a render or a write that fails while card k
\* is processed is the last render or write of the run (no retry, nothing
\* for a later card), its error propagates out of the strategy to main, the
\* confirmation line is never printed, no progress line is printed for card
\* k, and the process exits with a non-zero status.
C7_FailFast ==
  /\ \A i \in 1..Len(ops) : ~ops[i].ok => (i = Len(ops) /\ exc # "none" /\ Unwinding)
  /\ exc # "none" =>
       /\ Unwinding \/ pc = "handler"
       /\ ~confirmed
       /\ pc = "exited" => exitCode = 1
  /\ failedAt > 0 =>
       /\ exc # "none"
       /\ Len(yielded) = failedAt
       /\ \A i \in 1..Len(ops) : ops[i].card <= failedAt
       /\ \A i \in 1..Len(stdout) : stdout[i] < failedAt
  /\ (pc = "exited" /\ exc = "none") => (exitCode = 0 /\ confirmed)

\* the Back render of card 2 failed in the separate-files export, and the
\* process has exited
C7_Witness ==
  /\ export = "pdf"
  /\ pc = "exited"
  /\ failedAt = 2
  /\ exitCode = 1
  /\ ops[Len(ops)].kind = "render" /\ ops[Len(ops)].side = "A" /\ ~ops[Len(ops)].ok
  /\ nPages >= 4

\* ---- export_pdf_separate: the files on disk
\* NNN-Front.pdf and NNN-Back.pdf, NNN the card number padded with zeros to
\* three digits
FrontFile(i) == <<"", ZeroPad(Digits(i), 3), "-Front.pdf">>
BackFile(i) == <<"", ZeroPad(Digits(i), 3), "-Back.pdf">>
BothFiles(n) == {FrontFile(i) : i \in 1..n} \cup {BackFile(i) : i \in 1..n}

\* the m first names in the order the files are written
WrittenFirst(m) ==
  BothFiles(m \div 2) \cup (IF m % 2 = 1 THEN {FrontFile((m \div 2) + 1)} ELSE {})

\* the original statement of C8: at any point of the separate-files export
\* the files present are exactly the Front and Back files of cards 1..n for
\* some n, and a completed run over C cards leaves exactly 2*C files.
C8_WholeCardsOnly ==
  export = "pdf" =>
    /\ \E n \in 0..Len(yielded) : Names(outFiles) = BothFiles(n)
    /\ confirmed => Cardinality(outFiles) = 2 * Len(yielded)

\* C8 (amended): at any point of the separate-files export, also after a
\* crash, the files present are a prefix of the order they are written in,
\* 001-Front, 001-Back, 002-Front, ...: for some n the Front and Back files
\* of cards 1..n, and possibly the Front file of card n+1 alone.  Only the
\* last of them can be incomplete, and only when its write failed.  Every
\* file written stays: none is removed on a later failure.  A run that
\* completes over C cards leaves exactly 2*C files, all complete.
C8_WritePrefix ==
  export = "pdf" =>
    /\ \E m \in 0..(2 * Len(yielded)) :
         /\ Names(outFiles) = WrittenFirst(m)
         /\ Cardinality(outFiles) = m
         /\ \A f \in outFiles :
              ~f.whole => /\ exc # "none"
                          /\ ~ops[Len(ops)].ok
                          /\ ops[Len(ops)].name = f.name
                          /\ f.name \notin WrittenFirst(m - 1)
    /\ \A i \in WriteIdx : ops[i].ok => \E f \in outFiles : f.name = ops[i].name /\ f.whole
    /\ \A f \in outFiles :
         \E i \in 1..Len(yielded) :
           LET y == yielded[i]
           IN  \/ f.name = FrontFile(i) /\ f.content = <<<<y.q_page, y.col, y.row>>>>
               \/ f.name = BackFile(i) /\ f.content = <<<<y.a_page, 1 - y.col, y.row>>>>
    /\ confirmed =>
         /\ Cardinality(outFiles) = 2 * Len(yielded)
         /\ \A f \in outFiles : f.whole
         /\ Len(yielded) = (nPages \div 2) * 8

\* the Back render of card 2 failed: 001-Front, 001-Back and 002-Front are
\* on disk when the process has exited
C8_Witness ==
  /\ export = "pdf"
  /\ pc = "exited"
  /\ failedAt = 2
  /\ Names(outFiles) = {<<"", <<0, 0, 1>>, "-Front.pdf">>,
                        <<"", <<0, 0, 1>>, "-Back.pdf">>,
                        <<"", <<0, 0, 2>>, "-Front.pdf">>}

\* ---- main: the exit behaviour
\* C9: when the process has exited: a missing source file gave the short
\* message, no trace and a non-zero status, and nothing was opened, created
\* or rendered; any other failure gave the trace, the message and a non-zero
\* status.
C9_ExitBehaviour ==
  pc = "exited" =>
    /\ ~pdfExists =>
         /\ message /\ ~traceback /\ exitCode = 1
         /\ ~opened /\ ~warned /\ ~outDir /\ tempDir = "none"
         /\ ops = <<>> /\ yielded = <<>>
    /\ (pdfExists /\ exc # "none") => (traceback /\ message /\ exitCode = 1)

\* ---- export_anki: the serialization
QImage(i) == <<"card_", ZeroPad(Digits(i), 3), "_q.png">>
AImage(i) == <<"card_", ZeroPad(Digits(i), 3), "_a.png">>
MediaSet == {media[i] : i \in 1..Len(media)}

\* every card has been staged: one note per card in card order, its two
\* images in the media list, question then answer, under distinct names
AllStaged ==
  /\ Exhausted
  /\ failedAt = 0
  /\ Len(yielded) = (nPages \div 2) * 8
  /\ Len(deck) = Len(yielded)
  /\ \A i \in 1..Len(deck) : deck[i] = [q |-> QImage(yielded[i].num), a |-> AImage(yielded[i].num)]
  /\ Len(media) = 2 * Len(yielded)
  /\ \A i \in 1..Len(yielded) :
       /\ media[2 * i - 1] = QImage(yielded[i].num)
       /\ media[2 * i] = AImage(yielded[i].num)
  /\ Cardinality(MediaSet) = Len(media)

\* C10: the package is serialized at most once, and only after every card
\* has been staged; when it is serialized every media path names a complete
\* file of the scratch directory; the package written holds that deck and
\* that media list; and if a card failed, write_to_file was never called and
\* there is no package file at the output path.
C10_SerializedOnceAfterStaging ==
  /\ pkgWrites <= 1
  /\ (pc = "anki_pkg" \/ pkgWrites = 1) => AllStaged
  /\ pc = "anki_pkg" =>
       /\ pkgWrites = 0
       /\ tempDir = "exists"
       /\ Names(tempFiles) = MediaSet
       /\ \A f \in tempFiles : f.whole
  /\ pkgFile.present => (pkgWrites = 1 /\ pkgFile.notes = deck /\ pkgFile.media = media)
  /\ pkgFile.whole => confirmed \/ pc \in {"anki_finally", "anki_confirm"}
  /\ confirmed /\ export = "anki" => (pkgWrites = 1 /\ pkgFile.whole)
  /\ failedAt > 0 => (pkgWrites = 0 /\ ~pkgFile.present)

\* a 16-card package has been written and the scratch directory still exists
C10_Witness ==
  /\ pc = "anki_finally"
  /\ pkgFile.whole
  /\ Len(deck) = 16
  /\ Cardinality(tempFiles) = 32
  /\ media[32] = <<"card_", <<0, 1, 6>>, "_a.png">>

====
